---------------------------- MODULE Spec2Model ----------------------------
(***************************************************************************)
(* BookingPlatform: the booking store (Postgres tables of the migration),  *)
(* the client booking flow (CompanyProfilePage / BookingModal) and the     *)
(* owner dashboards (ScheduleManagement, ServicesManagement,               *)
(* BookingsManagement), as a state machine.                                *)
(*                                                                         *)
(* JavaScript strings are sequences of one-character strings, so that      *)
(* split / Number / String / padStart are computed as the code computes    *)
(* them.  Values of the SQL type `time` are minutes since midnight, values *)
(* of the SQL type `date` are day numbers.                                 *)
(***************************************************************************)
EXTENDS Integers, Sequences, FiniteSets, TLC

VARIABLES
    companies,              \* table companies
    services,               \* table services
    schedules,              \* table schedules
    schedule_exceptions,    \* table schedule_exceptions
    bookings,               \* table bookings
    page,                   \* CompanyProfilePage state, per client session
    modal,                  \* BookingModal state, per client session
    schedMgmt,              \* ScheduleManagement state, per owner session
    bookMgmt,               \* BookingsManagement state, per owner session
    now,                    \* the browsers' clock: local date, UTC offset
    arg_startTime,          \* calculateEndTime: argument startTime
    arg_durationMinutes,    \* calculateEndTime: argument durationMinutes
    ret_endTime,            \* calculateEndTime: returned string
    app,                    \* AppContent / CompanyDashboard state, per owner session
    apiResponse,            \* the store's answer to the last direct update or rpc
    listPage,               \* CompanyListPage state
    servMgmt,               \* ServicesManagement state, per owner session
    daySchedule             \* DaySchedule state of one weekday row, per owner session

storeVars  == <<companies, services, schedules, schedule_exceptions, bookings>>
clientVars == <<page, modal>>
ownerVars  == <<schedMgmt, bookMgmt>>
calcVars   == <<arg_startTime, arg_durationMinutes, ret_endTime>>
appVars    == <<app, apiResponse>>
vars == <<storeVars, clientVars, ownerVars, now, calcVars, appVars, listPage, servMgmt, daySchedule>>

-----------------------------------------------------------------------------
(* Bounds of the model *)

MaxBookings == 2            \* rows the bookings table may hold
MaxSmallDuration == 61      \* calculateEndTime: every duration up to this
MaxDurationSteps == 200     \* calculateEndTime: and every 15 * k up to this k
MaxToday == 2               \* the last local date the clock reaches
MaxLoads == 2               \* loadData / loadBookings calls in flight per session
MaxCompanies == 3           \* the most rows the companies table holds

-----------------------------------------------------------------------------
(* JavaScript string and number primitives used by calculateEndTime *)

NULL == 0 - 1

Digits == <<"0", "1", "2", "3", "4", "5", "6", "7", "8", "9">>

DigitValue(c) == (CHOOSE i \in 1 .. 10 : Digits[i] = c) - 1

RECURSIVE Number(_)
\* Number("09") = 9: the decimal value of a string of digits
Number(s) ==
    IF s = <<>> THEN 0
    ELSE 10 * Number(SubSeq(s, 1, Len(s) - 1)) + DigitValue(s[Len(s)])

RECURSIVE String(_)
\* String(9) = "9", String(10) = "10": no leading zeros
String(n) ==
    IF n < 10 THEN <<Digits[n + 1]>>
    ELSE String(n \div 10) \o <<Digits[(n % 10) + 1]>>

RECURSIVE padStart(_, _, _)
\* s.padStart(targetLength, padString) with a one-character padString
padStart(s, targetLength, padString) ==
    IF Len(s) >= targetLength THEN s
    ELSE padStart(<<padString>> \o s, targetLength, padString)

RECURSIVE split(_, _)
\* s.split(separator) with a one-character separator
split(s, separator) ==
    IF \A i \in 1 .. Len(s) : s[i] # separator THEN <<s>>
    ELSE LET k == CHOOSE i \in 1 .. Len(s) :
                      /\ s[i] = separator
                      /\ \A j \in 1 .. (i - 1) : s[j] # separator
         IN  <<SubSeq(s, 1, k - 1)>> \o split(SubSeq(s, k + 1, Len(s)), separator)

\* the mutant of calculateEndTime that forgets the wrap of the hours at 24
calculateEndTime_NoWrap(startTime, durationMinutes) ==
    LET parts == split(startTime, ":")
        totalMinutes == Number(parts[1]) * 60 + Number(parts[2]) + durationMinutes
    IN  padStart(String(totalMinutes \div 60), 2, "0") \o <<":">>
            \o padStart(String(totalMinutes % 60), 2, "0")

calculateEndTime(startTime, durationMinutes) ==
    LET parts == split(startTime, ":")
        hours == Number(parts[1])
        minutes == Number(parts[2])
        totalMinutes == hours * 60 + minutes + durationMinutes
        endHours == (totalMinutes \div 60) % 24
        endMinutes == totalMinutes % 60
    IN  padStart(String(endHours), 2, "0") \o <<":">>
            \o padStart(String(endMinutes), 2, "0")

\* the value of <input type="time">: "HH:MM", zero padded
TimeInput(hh, mm) ==
    <<Digits[(hh \div 10) + 1], Digits[(hh % 10) + 1], ":",
      Digits[(mm \div 10) + 1], Digits[(mm % 10) + 1]>>

\* Postgres reading the text 'HH:MM' into a column of type time
PgTime(text) ==
    LET parts == split(text, ":")
    IN  Number(parts[1]) * 60 + Number(parts[2])

-----------------------------------------------------------------------------
(* The people, sessions and rows of the model *)

Clients == {"u1", "u2"}              \* client browser sessions (auth users)
OwnerSessions == {"o1a", "o1b"}      \* two browser sessions of the owner o1
AppSessions == {"o1a", "o1b", "o2"}  \* business owners signed in to the app

TheCompany == [id |-> "c1", owner_id |-> "o1", name |-> "n1", is_active |-> TRUE]
TheService == [id |-> "s1", company_id |-> "c1", duration_minutes |-> 60,
               is_active |-> TRUE]

BookingStatus == {"pending", "confirmed", "cancelled", "completed"}

\* JavaScript Date.getDay() of a date: 0 = Sunday .. 6 = Saturday
DayOfWeek(date) == date % 7

\* auth.uid() of a browser session
AuthUid(session) == IF session \in OwnerSessions THEN "o1" ELSE session

-----------------------------------------------------------------------------
(* Row level security policies and table constraints of the migration *)

\* "Company owners can ..." USING / WITH CHECK: the caller owns the company
OwnsCompany(uid, company_id) ==
    \E c \in companies : c.id = company_id /\ c.owner_id = uid

\* "Users can view active schedules": is_active rows of active companies
CanViewSchedule(uid, row) ==
    \/ OwnsCompany(uid, row.company_id)
    \/ /\ row.is_active
       /\ \E c \in companies : c.id = row.company_id /\ c.is_active

\* "Users can view active services"
CanViewService(uid, row) ==
    \/ OwnsCompany(uid, row.company_id)
    \/ /\ row.is_active
       /\ \E c \in companies : c.id = row.company_id /\ c.is_active

\* "Clients can view active companies"
CanViewCompany(uid, row) == row.owner_id = uid \/ row.is_active

\* schedules without its unique index
SchedulesUnique_Off(row) == TRUE

\* schedules: UNIQUE(company_id, day_of_week) admits the insert of row
SchedulesUnique(row) ==
    \A r \in schedules :
        ~(r.company_id = row.company_id /\ r.day_of_week = row.day_of_week)

\* schedule_exceptions without its unique index
ExceptionsUnique_Off(row) == TRUE

\* schedule_exceptions: UNIQUE(company_id, date) admits the insert of row
ExceptionsUnique(row) ==
    \A r \in schedule_exceptions :
        ~(r.company_id = row.company_id /\ r.date = row.date)

\* error.message of a refused insert
RlsMessage(table) == <<"row-level security", table>>
DuplicateKeyMessage(table) == <<"duplicate key", table>>
InvalidTimeMessage == <<"invalid input syntax for type time">>

\* bookings with an exclusion constraint over closed intervals, whatever
\* the status of the stored row
BookingAccepted_Exclusive(row) ==
    /\ \E c \in companies : c.id = row.company_id
    /\ \E s \in services : s.id = row.service_id
    /\ row.status \in BookingStatus
    /\ \A b \in bookings :
           ~(/\ b.company_id = row.company_id
             /\ b.booking_date = row.booking_date
             /\ row.start_time <= b.end_time
             /\ b.start_time <= row.end_time)

\* bookings: the foreign keys, the CHECK on status and "Clients can create
\* bookings" WITH CHECK (true); the table has no other constraint
BookingAccepted(row) ==
    /\ \E c \in companies : c.id = row.company_id
    /\ \E s \in services : s.id = row.service_id
    /\ row.status \in BookingStatus

-----------------------------------------------------------------------------
(* Initial state: one company with one service, nothing scheduled or booked *)

PageInit == [loading |-> TRUE, company |-> <<>>, services |-> {},
             schedules |-> {}]
ModalClosed == [open |-> FALSE, service |-> <<>>, loading |-> FALSE,
                formData |-> <<>>, request |-> <<>>, pc |-> "form",
                alert |-> <<>>]
SchedMgmtInit == [loading |-> TRUE, schedules |-> {}, loads |-> 1,
                  alert |-> <<>>]
\* the values of BookingsManagement's filter
Filters == {"all"} \cup BookingStatus

\* BookingsManagement when mounted: the effect has called loadBookings once;
\* issued[f] counts the loadBookings calls in flight that read filter = f
BookMgmtInit == [loading |-> TRUE, bookings |-> {}, loads |-> 1,
                 filter |-> "all",
                 issued |-> [f \in Filters |-> IF f = "all" THEN 1 ELSE 0]]

InitStore ==
    /\ companies = {TheCompany}
    /\ services = {TheService}
    /\ schedules = {}
    /\ schedule_exceptions = {}
    /\ bookings = {}

InitSessions ==
    /\ page = [c \in Clients |-> PageInit]
    /\ modal = [c \in Clients |-> ModalClosed]
    /\ schedMgmt = [s \in OwnerSessions |-> SchedMgmtInit]
    /\ bookMgmt = [s \in OwnerSessions |-> BookMgmtInit]
    /\ now = [date |-> 1, utcOffset |-> 0]

\* AppContent of a business owner before loadUserCompany has answered, its
\* CompanyDashboard before loadCompanyData has answered
AppInit == [loadingCompany |-> TRUE, companyId |-> <<>>, lookups |-> 1,
            dashLoading |-> TRUE, dashCompany |-> <<>>]

InitApp ==
    /\ app = [s \in AppSessions |-> AppInit]
    /\ apiResponse = <<>>

\* CompanyListPage before loadCompanies has answered
InitList ==
    listPage = [loading |-> TRUE, companies |-> {}, searchTerm |-> <<>>,
                cityFilter |-> <<>>, selectedTags |-> {}]

\* ServicesManagement before loadServices has answered
ServMgmtInit == [loading |-> TRUE, services |-> {}, loads |-> 1]

\* the DaySchedule row is not rendered while ScheduleManagement is loading
DayScheduleInit ==
    [mounted |-> FALSE, isActive |-> FALSE, startTime |-> <<>>,
     endTime |-> <<>>, hasChanges |-> FALSE, saving |-> FALSE]

InitOwnerRows ==
    /\ servMgmt = [s \in OwnerSessions |-> ServMgmtInit]
    /\ daySchedule = [s \in OwnerSessions |-> DayScheduleInit]

InitCalcIdle ==
    /\ arg_startTime = TimeInput(0, 0)
    /\ arg_durationMinutes = 0
    /\ ret_endTime = <<>>

Init == InitStore /\ InitSessions /\ InitCalcIdle /\ InitApp /\ InitList /\ InitOwnerRows

-----------------------------------------------------------------------------
(* calculateEndTime on its own: the inputs drawn, the function applied *)

CalcDurations ==
    (0 .. MaxSmallDuration) \cup {15 * k : k \in 0 .. MaxDurationSteps}

InitCalc ==
    /\ InitStore /\ InitSessions /\ InitApp /\ InitList /\ InitOwnerRows
    /\ arg_startTime \in {TimeInput(hh, mm) : hh \in 0 .. 23, mm \in 0 .. 59}
    /\ arg_durationMinutes \in CalcDurations
    /\ ret_endTime = <<>>

CallCalculateEndTime ==
    /\ ret_endTime = <<>>
    /\ ret_endTime' = calculateEndTime(arg_startTime, arg_durationMinutes)
    /\ UNCHANGED <<storeVars, clientVars, ownerVars, now,
                   arg_startTime, arg_durationMinutes, appVars, listPage, servMgmt, daySchedule>>

NextCalc == CallCalculateEndTime

SpecCalc == InitCalc /\ [][NextCalc]_vars

\* C7: calculateEndTime(hh:mm, d) is the zero-padded HH:MM of
\* (hh*60 + mm + d) mod 1440, for every start time of the day and every
\* duration d >= 0 of the model
C7_EndTimeIsWallClockSum ==
    ret_endTime # <<>> =>
        LET start == PgTime(arg_startTime)
            t == (start + arg_durationMinutes) % 1440
        IN  ret_endTime = TimeInput(t \div 60, t % 60)

\* C7 witness: 23:30 + 60 has been computed, and wrapped to 00:30
C7_Witness_MidnightWrap ==
    /\ arg_startTime = TimeInput(23, 30)
    /\ arg_durationMinutes = 60
    /\ ret_endTime = <<"0", "0", ":", "3", "0">>

-----------------------------------------------------------------------------
(* CompanyProfilePage: the client's view of one company *)

\* the result of .maybeSingle(): no row, or the row
MaybeSingle(rows) == IF rows = {} THEN <<>> ELSE <<CHOOSE r \in rows : TRUE>>

\* supabase.from('schedules').select('*').eq('company_id', companyId)
\*     .eq('is_active', true), under the caller's select policies
SchedulesQuery(uid, companyId) ==
    {r \in schedules :
        /\ CanViewSchedule(uid, r)
        /\ r.company_id = companyId
        /\ r.is_active = TRUE}

\* loadCompanyData, the three queries answered without error
LoadCompanyData(c, companyId) ==
    /\ ~modal[c].open
    /\ LET uid == AuthUid(c)
           companyRes == MaybeSingle({r \in companies :
                             /\ CanViewCompany(uid, r)
                             /\ r.id = companyId
                             /\ r.is_active = TRUE})
           servicesRes == {r \in services :
                             /\ CanViewService(uid, r)
                             /\ r.company_id = companyId
                             /\ r.is_active = TRUE}
           schedulesRes == SchedulesQuery(uid, companyId)
       IN  page' = [page EXCEPT ![c] =
                       [loading |-> FALSE, company |-> companyRes,
                        services |-> servicesRes, schedules |-> schedulesRes]]
    /\ UNCHANGED <<storeVars, modal, ownerVars, now, calcVars, appVars, listPage, servMgmt, daySchedule>>

\* loadCompanyData when one of the three queries returns an error: the
\* throw skips the three setters, finally clears loading
LoadCompanyDataError(c) ==
    /\ ~modal[c].open
    /\ page' = [page EXCEPT ![c] = [PageInit EXCEPT !.loading = FALSE]]
    /\ UNCHANGED <<storeVars, modal, ownerVars, now, calcVars, appVars, listPage, servMgmt, daySchedule>>

\* the page renders the company (and its Opening Hours) only when loaded
PageShown(p) == ~p.loading /\ p.company # <<>>

\* the mutant of OpeningHours that shows the first rule of the list on every
\* row instead of the rule of the row's day
OpeningHours_AnyDay(p, index) ==
    IF p.schedules = {} THEN <<>>
    ELSE LET schedule == CHOOSE s \in p.schedules : TRUE
         IN  <<schedule.start_time, schedule.end_time>>

\* "Opening Hours", the row of day `index`: <<start, end>>, or <<>> (Closed)
OpeningHours(p, index) ==
    IF p.schedules = {} THEN <<>>
    ELSE LET found == {s \in p.schedules : s.day_of_week = index}
         IN  IF found = {} THEN <<>>
             ELSE LET schedule == CHOOSE s \in found : TRUE
                  IN  <<schedule.start_time, schedule.end_time>>

\* "Book Now" on a service of the loaded list
OpenModal(c, service) ==
    /\ PageShown(page[c])
    /\ service \in page[c].services
    /\ ~modal[c].open
    /\ modal' = [modal EXCEPT ![c] =
                    [ModalClosed EXCEPT !.open = TRUE, !.service = <<service>>]]
    /\ UNCHANGED <<storeVars, page, ownerVars, now, calcVars, appVars, listPage, servMgmt, daySchedule>>

-----------------------------------------------------------------------------
(* BookingModal.handleSubmit *)

\* the mutant of BookingInsertPayload that submits the booking as confirmed
BookingInsertPayload_Confirmed(company, service, uid, formData) ==
    [company_id |-> company.id,
     service_id |-> service.id,
     client_user_id |-> uid,
     booking_date |-> formData.date,
     start_time |-> formData.time,
     end_time |-> calculateEndTime(formData.time, service.duration_minutes),
     status |-> "confirmed"]

\* the object handed to supabase.from('bookings').insert
BookingInsertPayload(company, service, uid, formData) ==
    [company_id |-> company.id,
     service_id |-> service.id,
     client_user_id |-> uid,
     booking_date |-> formData.date,
     start_time |-> formData.time,
     end_time |-> calculateEndTime(formData.time, service.duration_minutes),
     status |-> "pending"]

\* new Date().toISOString().split('T')[0]: the UTC calendar dates the
\* instants of the local date clock.date fall on
UtcDates(clock) ==
    IF clock.utcOffset > 0 THEN {clock.date - 1, clock.date}
    ELSE IF clock.utcOffset < 0 THEN {clock.date, clock.date + 1}
    ELSE {clock.date}

\* the date input: required, min = the UTC date when the form is rendered;
\* the browser submits the form only when the value is not below min
DateInputValid(date, utcToday) == date >= utcToday

\* the form is filled in and submitted: setLoading(true), the end time is
\* computed and the insert is sent; the handler then awaits the store
HandleSubmit(c, date, time) ==
    /\ modal[c].open
    /\ ~modal[c].loading
    /\ modal[c].pc = "form"
    /\ \E utcToday \in UtcDates(now) : DateInputValid(date, utcToday)
    /\ LET formData == [date |-> date, time |-> time]
       IN  modal' = [modal EXCEPT ![c] =
               [@ EXCEPT !.loading = TRUE,
                         !.formData = <<formData>>,
                         !.request = <<BookingInsertPayload(
                                          page[c].company[1],
                                          modal[c].service[1],
                                          AuthUid(c), formData)>>,
                         !.pc = "awaiting",
                         !.alert = <<>>]]
    /\ UNCHANGED <<storeVars, page, ownerVars, now, calcVars, appVars, listPage, servMgmt, daySchedule>>

\* bookings.id DEFAULT gen_random_uuid(): an id no stored row has
NewBookingId ==
    CHOOSE n \in 1 .. (Cardinality(bookings) + 1) :
        /\ \A r \in bookings : r.id # n
        /\ \A m \in 1 .. (n - 1) : \E r \in bookings : r.id = m

\* the row the bookings table stores for an insert payload
BookingRow(payload) ==
    [id |-> NewBookingId,
     company_id |-> payload.company_id,
     service_id |-> payload.service_id,
     client_user_id |-> payload.client_user_id,
     booking_date |-> payload.booking_date,
     start_time |-> PgTime(payload.start_time),
     end_time |-> PgTime(payload.end_time),
     status |-> payload.status]

\* the store executes the insert: the row is added, no error is returned
BookingInsert(c) ==
    /\ modal[c].pc = "awaiting"
    /\ Cardinality(bookings) < MaxBookings
    /\ LET row == BookingRow(modal[c].request[1])
       IN  /\ BookingAccepted(row)
           /\ bookings' = bookings \cup {row}
    /\ modal' = [modal EXCEPT ![c].pc = "inserted"]
    /\ UNCHANGED <<companies, services, schedules, schedule_exceptions,
                   page, ownerVars, now, calcVars, appVars, listPage, servMgmt, daySchedule>>

\* the store is unavailable: the insert returns an error, nothing is added
BookingInsertError(c) ==
    /\ modal[c].pc = "awaiting"
    /\ modal' = [modal EXCEPT ![c].pc = "failed"]
    /\ UNCHANGED <<storeVars, page, ownerVars, now, calcVars, appVars, listPage, servMgmt, daySchedule>>

\* the texts handleSubmit alerts
SuccessMessage == "Booking request sent successfully! You will receive a confirmation soon."
StoreErrorMessage == "error.message"

\* a handleSubmit that calls onClose() whatever the insert returned
ModalAfterSubmit_CloseAlways(m) ==
    [ModalClosed EXCEPT !.alert = IF m.pc = "inserted" THEN <<SuccessMessage>>
                                  ELSE <<StoreErrorMessage>>]

\* the modal after the awaited insert has returned: success alerts and
\* closes the modal (onClose), an error alerts its message; finally
\* setLoading(false)
ModalAfterSubmit(m) ==
    IF m.pc = "inserted"
    THEN [ModalClosed EXCEPT !.alert = <<SuccessMessage>>]
    ELSE [m EXCEPT !.loading = FALSE, !.request = <<>>, !.pc = "form",
                   !.alert = <<StoreErrorMessage>>]

\* the awaited insert has returned and handleSubmit runs to its end
HandleSubmitDone(c) ==
    /\ modal[c].pc \in {"inserted", "failed"}
    /\ modal' = [modal EXCEPT ![c] = ModalAfterSubmit(modal[c])]
    /\ UNCHANGED <<storeVars, page, ownerVars, now, calcVars, appVars, listPage, servMgmt, daySchedule>>

-----------------------------------------------------------------------------
(* ScheduleManagement: the owner's weekly schedule and exceptions *)

\* loadData answered: the local list becomes the company's rows
LoadDataCall(s, companyId) ==
    /\ schedMgmt[s].loads > 0
    /\ schedMgmt[s].alert = <<>>
    /\ schedMgmt' = [schedMgmt EXCEPT ![s] =
           [loading |-> FALSE,
            schedules |-> {r \in schedules :
                              /\ CanViewSchedule(AuthUid(s), r)
                              /\ r.company_id = companyId},
            loads |-> @.loads - 1,
            alert |-> <<>>]]
    /\ UNCHANGED <<storeVars, clientVars, bookMgmt, now, calcVars, appVars, listPage, servMgmt>>

\* loadData answered while no DaySchedule row is considered
LoadData(s, companyId) ==
    /\ LoadDataCall(s, companyId)
    /\ UNCHANGED daySchedule

\* the row an insert into schedules stores
ScheduleRow(companyId, dayOfWeek, startTime, endTime, isActive) ==
    [id |-> <<companyId, dayOfWeek>>,
     company_id |-> companyId,
     day_of_week |-> dayOfWeek,
     start_time |-> PgTime(startTime),
     end_time |-> PgTime(endTime),
     is_active |-> isActive]

\* Postgres accepts the text for a column of type time: 'HH:MM' or
\* 'HH:MM:SS', not the empty value of a cleared <input type="time">
PgTimeValid(text) == Len(text) \in {5, 8}

\* schedules.find on every rule of the list instead of the day's rule
ScheduleFind_AnyDay(localSchedules, dayOfWeek) == localSchedules

\* schedules.find(s => s.day_of_week === dayOfWeek): the rules of the local
\* list it can return (none when it returns undefined)
ScheduleFind(localSchedules, dayOfWeek) ==
    {r \in localSchedules : r.day_of_week = dayOfWeek}

\* handleScheduleUpdate as ScheduleManagement runs it: update the rule the
\* local list holds for the day, insert one when it holds none; loadData()
\* after a store success, alert(error.message) after a store error
ScheduleUpdateCall(s, companyId, dayOfWeek, startTime, endTime, isActive) ==
    /\ ~schedMgmt[s].loading
    /\ schedMgmt[s].alert = <<>>
    /\ schedMgmt[s].loads < MaxLoads
    /\ LET found == ScheduleFind(schedMgmt[s].schedules, dayOfWeek)
       IN  IF ~(PgTimeValid(startTime) /\ PgTimeValid(endTime))
           THEN /\ schedMgmt' = [schedMgmt EXCEPT ![s].alert =
                                     <<InvalidTimeMessage>>]
                /\ UNCHANGED schedules
           ELSE IF found # {}
           THEN LET existing == CHOOSE r \in found : TRUE
                IN  /\ schedules' =
                          {IF r.id = existing.id
                              /\ OwnsCompany(AuthUid(s), r.company_id)
                           THEN [r EXCEPT !.start_time = PgTime(startTime),
                                          !.end_time = PgTime(endTime),
                                          !.is_active = isActive]
                           ELSE r : r \in schedules}
                    /\ schedMgmt' = [schedMgmt EXCEPT ![s].loads = @ + 1]
           ELSE LET row == ScheduleRow(companyId, dayOfWeek, startTime,
                                       endTime, isActive)
                IN  IF ~OwnsCompany(AuthUid(s), companyId)
                    THEN /\ schedMgmt' = [schedMgmt EXCEPT ![s].alert =
                                              <<RlsMessage("schedules")>>]
                         /\ UNCHANGED schedules
                    ELSE IF ~SchedulesUnique(row)
                    THEN /\ schedMgmt' = [schedMgmt EXCEPT ![s].alert =
                                              <<DuplicateKeyMessage("schedules")>>]
                         /\ UNCHANGED schedules
                    ELSE /\ schedules' = schedules \cup {row}
                         /\ schedMgmt' = [schedMgmt EXCEPT ![s].loads = @ + 1]
    /\ UNCHANGED <<companies, services, schedule_exceptions, bookings,
                   clientVars, bookMgmt, now, calcVars, appVars, listPage, servMgmt>>

\* handleScheduleUpdate called with the values of a row
HandleScheduleUpdate(s, companyId, dayOfWeek, startTime, endTime, isActive) ==
    /\ ScheduleUpdateCall(s, companyId, dayOfWeek, startTime, endTime, isActive)
    /\ UNCHANGED daySchedule

\* the times the insert of ExceptionForm sends can be read by the store
\* (null is sent for both when is_closed)
ExceptionTimesValid(formData) ==
    \/ formData.is_closed
    \/ PgTimeValid(formData.start_time) /\ PgTimeValid(formData.end_time)

\* an insert that sends the times of the form whatever is_closed says
ExceptionRow_KeepTimes(companyId, formData) ==
    [company_id |-> companyId,
     date |-> formData.date,
     is_closed |-> formData.is_closed,
     start_time |-> IF PgTimeValid(formData.start_time)
                    THEN PgTime(formData.start_time) ELSE NULL,
     end_time |-> IF PgTimeValid(formData.end_time)
                  THEN PgTime(formData.end_time) ELSE NULL]

\* the row an insert into schedule_exceptions stores
ExceptionRow(companyId, formData) ==
    [company_id |-> companyId,
     date |-> formData.date,
     is_closed |-> formData.is_closed,
     start_time |-> IF formData.is_closed THEN NULL
                    ELSE PgTime(formData.start_time),
     end_time |-> IF formData.is_closed THEN NULL
                  ELSE PgTime(formData.end_time)]

\* ExceptionForm.handleSubmit: insert; onSuccess (loadData) after a store
\* success, alert(error.message) after a store error
ExceptionFormSubmit(s, companyId, formData) ==
    /\ ~schedMgmt[s].loading
    /\ schedMgmt[s].alert = <<>>
    /\ schedMgmt[s].loads < MaxLoads
    /\ LET row == ExceptionRow(companyId, formData)
       IN  IF ~ExceptionTimesValid(formData)
           THEN /\ schedMgmt' = [schedMgmt EXCEPT ![s].alert =
                                     <<InvalidTimeMessage>>]
                /\ UNCHANGED schedule_exceptions
           ELSE IF ~OwnsCompany(AuthUid(s), companyId)
           THEN /\ schedMgmt' = [schedMgmt EXCEPT ![s].alert =
                                     <<RlsMessage("schedule_exceptions")>>]
                /\ UNCHANGED schedule_exceptions
           ELSE IF ~ExceptionsUnique(row)
           THEN /\ schedMgmt' = [schedMgmt EXCEPT ![s].alert =
                                     <<DuplicateKeyMessage("schedule_exceptions")>>]
                /\ UNCHANGED schedule_exceptions
           ELSE /\ schedule_exceptions' = schedule_exceptions \cup {row}
                /\ schedMgmt' = [schedMgmt EXCEPT ![s].loads = @ + 1]
    /\ UNCHANGED <<companies, services, schedules, bookings,
                   clientVars, bookMgmt, now, calcVars, appVars, listPage, servMgmt, daySchedule>>

\* the owner closes the alert box; until then the page runs nothing
DismissAlertCall(s) ==
    /\ schedMgmt[s].alert # <<>>
    /\ schedMgmt' = [schedMgmt EXCEPT ![s].alert = <<>>]
    /\ UNCHANGED <<storeVars, clientVars, bookMgmt, now, calcVars, appVars, listPage, servMgmt>>

\* the alert box of a call that no DaySchedule row is waiting on
DismissAlert(s) ==
    /\ DismissAlertCall(s)
    /\ UNCHANGED daySchedule

-----------------------------------------------------------------------------
(* The booking flow: a client books while an owner session edits the       *)
(* weekly schedule and the exceptions                                      *)

BookingDates == {1}
BookingTimes == {TimeInput(8, 0), TimeInput(9, 0), TimeInput(9, 30)}
OpeningTimes == {<<TimeInput(9, 0), TimeInput(17, 0)>>,
                 <<TimeInput(10, 0), TimeInput(12, 0)>>}
ExceptionInputs ==
    {[date |-> d, is_closed |-> TRUE,
      start_time |-> TimeInput(9, 0), end_time |-> TimeInput(17, 0)] :
        d \in BookingDates}
    \cup
    {[date |-> d, is_closed |-> FALSE,
      start_time |-> TimeInput(10, 0), end_time |-> TimeInput(11, 0)] :
        d \in BookingDates}

ClientNext(c) ==
    \/ LoadCompanyData(c, TheCompany.id)
    \/ LoadCompanyDataError(c)
    \/ \E service \in page[c].services : OpenModal(c, service)
    \/ \E date \in BookingDates, time \in BookingTimes : HandleSubmit(c, date, time)
    \/ BookingInsert(c)
    \/ BookingInsertError(c)
    \/ HandleSubmitDone(c)

ScheduleNext(s) ==
    \/ LoadData(s, TheCompany.id)
    \/ \E date \in BookingDates, t \in OpeningTimes, isActive \in BOOLEAN :
           HandleScheduleUpdate(s, TheCompany.id, DayOfWeek(date),
                                t[1], t[2], isActive)
    \/ \E formData \in ExceptionInputs :
           ExceptionFormSubmit(s, TheCompany.id, formData)
    \/ DismissAlert(s)

Next ==
    \/ ClientNext("u1")
    \/ ScheduleNext("o1a")

Spec == Init /\ [][Next]_vars

-----------------------------------------------------------------------------
(* The availability rules of the specification, as the claims state them *)

ActiveStatus == {"pending", "confirmed"}

\* half-open intervals [a.start_time, a.end_time) and [b.start_time, b.end_time)
Intersects(a, b) == a.start_time < b.end_time /\ b.start_time < a.end_time

ExceptionsOn(companyId, date) ==
    {e \in schedule_exceptions : e.company_id = companyId /\ e.date = date}

\* the interval of the active weekly rule of a day: <<start, end>>, or <<>>
WeeklyRuleInterval(companyId, dayOfWeek) ==
    LET rules == {r \in schedules : /\ r.company_id = companyId
                                    /\ r.day_of_week = dayOfWeek
                                    /\ r.is_active}
    IN  IF rules = {} THEN <<>>
        ELSE LET r == CHOOSE x \in rules : TRUE IN <<r.start_time, r.end_time>>

\* openIntervalsFor(company, date): an exception overrides the weekly rule
OpenIntervalsFor(companyId, date) ==
    LET ex == ExceptionsOn(companyId, date)
        weekly == WeeklyRuleInterval(companyId, DayOfWeek(date))
    IN  IF ex # {}
        THEN {<<e.start_time, e.end_time>> : e \in {x \in ex : ~x.is_closed}}
        ELSE IF weekly = <<>> THEN {} ELSE {weekly}

ContainedIn(b, interval) ==
    b.start_time >= interval[1] /\ b.end_time <= interval[2]

\* the rows of bookings' whose id is new
Created == {b \in bookings' : \A a \in bookings : a.id # b.id}

\* the dates the claims about opening hours are checked on (two weeks)
CheckedDates == 0 .. 13

-----------------------------------------------------------------------------
(* Claims about the booking flow, checked under Spec *)

\* C2: no two pending or confirmed bookings of one company and date have
\* intersecting half-open intervals
C2_NoOverlappingActiveBookings ==
    \A b1, b2 \in bookings :
        (/\ b1.id # b2.id
         /\ b1.company_id = b2.company_id
         /\ b1.booking_date = b2.booking_date
         /\ b1.status \in ActiveStatus
         /\ b2.status \in ActiveStatus)
            => ~Intersects(b1, b2)

\* C3: a booking is persisted only if its interval lies inside the open
\* interval of its company for its date
C3_PersistedOnlyInsideOpenInterval ==
    [][\A b \in Created :
          \E interval \in OpenIntervalsFor(b.company_id, b.booking_date) :
              ContainedIn(b, interval)]_vars

\* C4: no booking is created for a company on a date for which the company
\* has a closed exception
C4_NoBookingOnClosedException ==
    [][\A b \in Created :
          \A e \in ExceptionsOn(b.company_id, b.booking_date) :
              ~e.is_closed]_vars

\* C5: on a date with a non-closed exception the interval that decides
\* bookability is the exception's: a booking created on that date lies inside
\* the exception's [start_time, end_time), whatever the weekly rule is
C5_ExceptionIntervalDecides ==
    [][\A b \in Created :
          \A e \in ExceptionsOn(b.company_id, b.booking_date) :
              ~e.is_closed => ContainedIn(b, <<e.start_time, e.end_time>>)]_vars

\* C6: whenever CompanyProfilePage has loaded a company, the opening hours
\* it derives for a date without exception are the interval of the weekly
\* rule of that day of the week when the rule exists and is active, and
\* closed otherwise
C6_OpeningHoursAreTheWeeklyRule ==
    [][\A c \in Clients :
          (page'[c] # page[c] /\ PageShown(page'[c])) =>
              \A date \in CheckedDates :
                  ExceptionsOn(page'[c].company[1].id, date) = {} =>
                      OpeningHours(page'[c], DayOfWeek(date)) =
                          WeeklyRuleInterval(page'[c].company[1].id,
                                             DayOfWeek(date))]_vars

\* C6 witness: a loaded page shows the hours of an active rule while the
\* store also holds an exception, and another day is shown closed
C6_Witness_PageShowsRule ==
    \E c \in Clients :
        /\ PageShown(page[c])
        /\ OpeningHours(page[c], 1) = <<PgTime(TimeInput(10, 0)),
                                        PgTime(TimeInput(12, 0))>>
        /\ OpeningHours(page[c], 2) = <<>>
        /\ schedule_exceptions # {}

\* C9: a booking has status pending in the state right after its creation
C9_CreatedPending ==
    [][\A b \in Created : b.status = "pending"]_vars

\* C9 witness: handleSubmit has just had its booking stored, as pending
C9_Witness_JustCreated ==
    \E c \in Clients :
        /\ modal[c].pc = "inserted"
        /\ \E b \in bookings :
              b.client_user_id = AuthUid(c) /\ b.status = "pending"

-----------------------------------------------------------------------------
(* Two clients book at once, under a weekly rule the owner has opened *)

RaceTimes == {TimeInput(9, 0), TimeInput(9, 30)}

ClientRaceNext(c) ==
    \/ LoadCompanyData(c, TheCompany.id)
    \/ \E service \in page[c].services : OpenModal(c, service)
    \/ \E date \in BookingDates, time \in RaceTimes : HandleSubmit(c, date, time)
    \/ BookingInsert(c)
    \/ BookingInsertError(c)
    \/ HandleSubmitDone(c)

OwnerRaceNext(s) ==
    \/ LoadData(s, TheCompany.id)
    \/ \E date \in BookingDates :
           HandleScheduleUpdate(s, TheCompany.id, DayOfWeek(date),
                                TimeInput(9, 0), TimeInput(17, 0), TRUE)
    \/ DismissAlert(s)

NextRace ==
    \/ \E c \in Clients : ClientRaceNext(c)
    \/ OwnerRaceNext("o1a")

SpecRace == Init /\ [][NextRace]_vars

\* the stored form of the request a handleSubmit call is waiting on
Requested(c) == BookingRow(modal[c].request[1])

\* the request lies inside the opening hours the client's page showed when
\* the form was opened, and inside the open interval the store holds now
OtherwiseLegal(c) ==
    LET shown == OpeningHours(page[c], DayOfWeek(Requested(c).booking_date))
    IN  /\ shown # <<>>
        /\ ContainedIn(Requested(c), shown)
        /\ \E interval \in OpenIntervalsFor(Requested(c).company_id,
                                             Requested(c).booking_date) :
               ContainedIn(Requested(c), interval)

\* C1: of two handleSubmit calls in progress at once (neither has returned),
\* for the same company and date, with intersecting intervals that are each
\* otherwise legal, at most one has its booking persisted: never are both
\* calls answered with success
C1_ConcurrentOverlapAtMostOne ==
    \A c1, c2 \in Clients :
        (/\ c1 # c2
         /\ modal[c1].pc = "inserted"
         /\ modal[c2].pc = "inserted"
         /\ Requested(c1).company_id = Requested(c2).company_id
         /\ Requested(c1).booking_date = Requested(c2).booking_date
         /\ Intersects(Requested(c1), Requested(c2))
         /\ OtherwiseLegal(c1)
         /\ OtherwiseLegal(c2))
            => FALSE

-----------------------------------------------------------------------------
(* BookingsManagement: the owner's list of bookings and their status *)

\* the rows loadBookings' query returns for a caller, company and filter
BookingsQuery(uid, companyId, filter) ==
    {r \in bookings : /\ OwnsCompany(uid, r.company_id)
                      /\ r.company_id = companyId
                      /\ filter # "all" => r.status = filter}

\* one loadBookings call answered, whichever of those in flight: the list
\* becomes the rows of the query built with the filter the call read
LoadBookings(s, companyId) ==
    /\ bookMgmt[s].loads > 0
    /\ \E f \in Filters :
           /\ bookMgmt[s].issued[f] > 0
           /\ bookMgmt' = [bookMgmt EXCEPT ![s] =
                  [loading |-> FALSE,
                   bookings |-> BookingsQuery(AuthUid(s), companyId, f),
                   loads |-> @.loads - 1,
                   filter |-> @.filter,
                   issued |-> [@.issued EXCEPT ![f] = @ - 1]]]
    /\ UNCHANGED <<storeVars, clientVars, schedMgmt, now, calcVars, appVars, listPage, servMgmt, daySchedule>>

\* BookingCard.isPast: new Date(booking_date) is midnight UTC of the date,
\* new Date(new Date().toDateString()) is midnight local time of today;
\* both in hours since the epoch
isPast(booking_date, clock) ==
    booking_date * 24 < clock.date * 24 - clock.utcOffset

\* the status buttons BookingCard renders for a displayed booking
OfferedStatuses(booking, clock) ==
    IF booking.status = "pending" THEN {"confirmed", "cancelled"}
    ELSE IF booking.status = "confirmed"
         THEN {"cancelled"} \cup
              (IF isPast(booking.booking_date, clock) THEN {"completed"} ELSE {})
         ELSE {}

\* the row after update(patch); a patch is a record of the columns it sets
PatchBooking(r, patch) ==
    [r EXCEPT !.status = IF "status" \in DOMAIN patch THEN patch.status ELSE @,
              !.company_id = IF "company_id" \in DOMAIN patch
                             THEN patch.company_id ELSE @]

\* bookings without the USING of its update policy
BookingsUpdateUsing_Off(uid, row) == TRUE

\* "Company owners can update their bookings": USING, on the stored row
BookingsUpdateUsing(uid, row) == OwnsCompany(uid, row.company_id)

\* "Company owners can update their bookings": WITH CHECK, on the new row
BookingsUpdateCheck(uid, row) == OwnsCompany(uid, row.company_id)

\* an update without its .eq('id', id) filter
BookingsUpdateTargets_AllRows(uid, id) ==
    {r \in bookings : BookingsUpdateUsing(uid, r)}

\* the rows .update(patch).eq('id', id) on bookings acts on for a caller
BookingsUpdateTargets(uid, id) ==
    {r \in bookings : r.id = id /\ BookingsUpdateUsing(uid, r)}

\* the update is refused as a whole when a new row fails WITH CHECK
BookingsUpdateError(uid, id, patch) ==
    \E r \in BookingsUpdateTargets(uid, id) :
        ~BookingsUpdateCheck(uid, PatchBooking(r, patch))

BookingsAfterUpdate(uid, id, patch) ==
    IF BookingsUpdateError(uid, id, patch) THEN bookings
    ELSE {IF r \in BookingsUpdateTargets(uid, id)
          THEN PatchBooking(r, patch) ELSE r : r \in bookings}

\* updateBookingStatus(id, status), called from a button of a displayed
\* card: the row with that id is updated, then loadBookings()
UpdateBookingStatus(s, id, status) ==
    /\ ~bookMgmt[s].loading
    /\ bookMgmt[s].loads < MaxLoads
    /\ \E shown \in bookMgmt[s].bookings :
           shown.id = id /\ status \in OfferedStatuses(shown, now)
    /\ bookings' = BookingsAfterUpdate(AuthUid(s), id, [status |-> status])
    /\ bookMgmt' = [bookMgmt EXCEPT ![s].loads = @ + 1,
                                    ![s].issued[bookMgmt[s].filter] = @ + 1]
    /\ UNCHANGED <<companies, services, schedules, schedule_exceptions,
                   clientVars, schedMgmt, now, calcVars, appVars, listPage, servMgmt, daySchedule>>

\* a filter button other than the selected one: setFilter(f), and the
\* effect on [companyId, filter] calls loadBookings
SetFilter(s, f) ==
    /\ ~bookMgmt[s].loading
    /\ bookMgmt[s].loads < MaxLoads
    /\ f # bookMgmt[s].filter
    /\ bookMgmt' = [bookMgmt EXCEPT ![s].filter = f,
                                    ![s].loads = @ + 1,
                                    ![s].issued[f] = @ + 1]
    /\ UNCHANGED <<storeVars, clientVars, schedMgmt, now, calcVars, appVars,
                   listPage, servMgmt, daySchedule>>

\* ServiceForm.handleSubmit on an existing service: update(formData)
ServiceFormSubmit(s, serviceId, formData) ==
    /\ services' = {IF r.id = serviceId /\ OwnsCompany(AuthUid(s), r.company_id)
                    THEN [r EXCEPT !.duration_minutes = formData.duration_minutes,
                                   !.is_active = formData.is_active]
                    ELSE r : r \in services}
    /\ UNCHANGED <<companies, schedules, schedule_exceptions, bookings,
                   clientVars, ownerVars, now, calcVars, appVars, listPage, servMgmt, daySchedule>>

\* a day passes on the browsers' clock
Tick ==
    /\ now.date < MaxToday
    /\ now' = [now EXCEPT !.date = @ + 1]
    /\ UNCHANGED <<storeVars, clientVars, ownerVars, calcVars, appVars, listPage, servMgmt, daySchedule>>

-----------------------------------------------------------------------------
(* The owner's dashboard: a client books, two sessions of the owner manage *)
(* the bookings, the owner edits the duration of the service               *)

UtcOffsets == {0 - 5, 2}
ServiceDurations == {30, 60}

InitOwner ==
    /\ InitStore /\ InitCalcIdle /\ InitApp /\ InitList /\ InitOwnerRows
    /\ page = [c \in Clients |-> PageInit]
    /\ modal = [c \in Clients |-> ModalClosed]
    /\ schedMgmt = [s \in OwnerSessions |-> SchedMgmtInit]
    /\ bookMgmt = [s \in OwnerSessions |-> BookMgmtInit]
    /\ now \in {[date |-> 1, utcOffset |-> o] : o \in UtcOffsets}

ClientOwnerNext(c) ==
    \/ LoadCompanyData(c, TheCompany.id)
    \/ \E service \in page[c].services : OpenModal(c, service)
    \/ \E date \in BookingDates : HandleSubmit(c, date, TimeInput(9, 0))
    \/ BookingInsert(c)

NextOwner ==
    \/ ClientOwnerNext("u1")
    \/ \E s \in OwnerSessions : LoadBookings(s, TheCompany.id)
    \/ \E s \in OwnerSessions, id \in 1 .. MaxBookings, status \in BookingStatus :
           UpdateBookingStatus(s, id, status)
    \/ \E d \in ServiceDurations :
           ServiceFormSubmit("o1a", TheService.id,
                             [duration_minutes |-> d, is_active |-> TRUE])
    \/ Tick

SpecOwner == InitOwner /\ [][NextOwner]_vars

\* C8: every stored booking ends at its start plus the duration of the
\* service it references, on the 24-hour clock, in every state
C8_EndIsStartPlusServiceDuration ==
    \A b \in bookings :
        \A svc \in services :
            svc.id = b.service_id =>
                b.end_time = (b.start_time + svc.duration_minutes) % 1440

\* the changes of status the state machine of a booking allows
LegalTransitions ==
    {<<"pending", "confirmed">>, <<"pending", "cancelled">>,
     <<"confirmed", "cancelled">>, <<"confirmed", "completed">>}

\* C10: every change of a stored booking's status is a legal transition, so
\* a cancelled or completed booking never changes again
C10_OnlyLegalTransitions ==
    [][\A a \in bookings : \A b \in bookings' :
          (a.id = b.id /\ a.status # b.status) =>
              <<a.status, b.status>> \in LegalTransitions]_vars

-----------------------------------------------------------------------------
(* Claims about BookingCard, checked under SpecOwner *)

\* the cards an owner session displays
DisplayedBookings(s) == IF bookMgmt[s].loading THEN {} ELSE bookMgmt[s].bookings

\* C11: a displayed card offers "Mark Completed" only when it shows the
\* booking as confirmed and the booking's date is strictly before today's
\* date; a confirmed booking dated today or later is offered cancel only
C11_CompletedOfferedOnlyForPast ==
    \A s \in OwnerSessions : \A b \in DisplayedBookings(s) :
        /\ "completed" \in OfferedStatuses(b, now) =>
               (b.status = "confirmed" /\ b.booking_date < now.date)
        /\ (b.status = "confirmed" /\ b.booking_date >= now.date) =>
               OfferedStatuses(b, now) = {"cancelled"}

-----------------------------------------------------------------------------
(* The booking form on its own: a client books around midnight and around  *)
(* the change of date                                                      *)

FormDates == {1, 2}
FormTimes == {TimeInput(9, 0), TimeInput(23, 30)}

InitForm ==
    /\ InitStore /\ InitCalcIdle /\ InitApp /\ InitList /\ InitOwnerRows
    /\ page = [c \in Clients |-> PageInit]
    /\ modal = [c \in Clients |-> ModalClosed]
    /\ schedMgmt = [s \in OwnerSessions |-> SchedMgmtInit]
    /\ bookMgmt = [s \in OwnerSessions |-> BookMgmtInit]
    /\ now \in {[date |-> 1, utcOffset |-> o] : o \in UtcOffsets \cup {0}}

ClientFormNext(c) ==
    \/ LoadCompanyData(c, TheCompany.id)
    \/ LoadCompanyDataError(c)
    \/ \E service \in page[c].services : OpenModal(c, service)
    \/ \E date \in FormDates, time \in FormTimes : HandleSubmit(c, date, time)
    \/ BookingInsert(c)
    \/ BookingInsertError(c)
    \/ HandleSubmitDone(c)

\* a day passes while no insert is on its way to the store
TickIdle ==
    /\ \A c \in Clients : modal[c].pc # "awaiting"
    /\ Tick

NextForm ==
    \/ ClientFormNext("u1")
    \/ TickIdle

SpecForm == InitForm /\ [][NextForm]_vars

\* C12: every booking the creation path persists has start_time < end_time
C12_StartBeforeEnd ==
    [][\A b \in Created : b.start_time < b.end_time]_vars

\* C13: no booking is persisted whose booking_date is before the date of
\* the moment it is created
C13_NotCreatedInThePast ==
    [][\A b \in Created : b.booking_date >= now.date]_vars

-----------------------------------------------------------------------------
(* Two sessions of the owner edit the weekly schedule and the exceptions *)

OwnerScheduleNext(s) ==
    \/ LoadData(s, TheCompany.id)
    \/ \E date \in BookingDates, t \in OpeningTimes, isActive \in BOOLEAN :
           HandleScheduleUpdate(s, TheCompany.id, DayOfWeek(date),
                                t[1], t[2], isActive)
    \/ \E formData \in ExceptionInputs :
           ExceptionFormSubmit(s, TheCompany.id, formData)
    \/ DismissAlert(s)

NextSchedule == \E s \in OwnerSessions : OwnerScheduleNext(s)

SpecSchedule == Init /\ [][NextSchedule]_vars

\* the session whose page state a step changes
Acts(s) == schedMgmt'[s] # schedMgmt[s]

\* the session's local list shows no rule for the day
ShowsNoRule(s, dayOfWeek) ==
    /\ ~schedMgmt[s].loading
    /\ \A r \in schedMgmt[s].schedules : r.day_of_week # dayOfWeek

\* C14: the store never holds two weekly rules for one (company,
\* day_of_week), and a step of a session whose list shows no rule for a day
\* leaves the rule the store holds for that day as it is
C14_OneRulePerDay ==
    [][/\ \A r1, r2 \in schedules' :
              (r1.company_id = r2.company_id
                  /\ r1.day_of_week = r2.day_of_week) => r1 = r2
       /\ \A s \in OwnerSessions : \A r \in schedules :
              (Acts(s) /\ ShowsNoRule(s, r.day_of_week)) => r \in schedules'
       /\ \A s \in OwnerSessions :
              (Acts(s) /\ schedMgmt'[s].alert # <<>>) => schedules' = schedules
      ]_vars

\* C14 witness: a session whose list shows no rule for Monday has saved
\* Monday while the store already held Monday's rule, and got the error
C14_Witness_StaleInsertRefused ==
    \E s \in OwnerSessions :
        /\ ShowsNoRule(s, 1)
        /\ schedMgmt[s].alert = <<DuplicateKeyMessage("schedules")>>
        /\ \E r \in schedules : r.day_of_week = 1
        /\ \E o \in OwnerSessions \ {s} : schedMgmt[o].schedules # {}

\* C15: the store never holds two exceptions for one (company, date); a
\* stored exception is never altered by a step, and the step that shows an
\* ExceptionForm error adds no row
C15_OneExceptionPerDate ==
    [][/\ \A e1, e2 \in schedule_exceptions' :
              (e1.company_id = e2.company_id /\ e1.date = e2.date) => e1 = e2
       /\ \A e \in schedule_exceptions : e \in schedule_exceptions'
       /\ \A e \in schedule_exceptions' \ schedule_exceptions :
              \A x \in schedule_exceptions :
                  ~(x.company_id = e.company_id /\ x.date = e.date)
       /\ \A s \in OwnerSessions :
              (Acts(s) /\ schedMgmt'[s].alert # <<>>) =>
                  schedule_exceptions' = schedule_exceptions
      ]_vars

\* C15 witness: ExceptionForm was submitted for a date that already had an
\* exception and showed the duplicate-key error; the one exception remains
C15_Witness_SecondExceptionRefused ==
    \E s \in OwnerSessions :
        /\ schedMgmt[s].alert = <<DuplicateKeyMessage("schedule_exceptions")>>
        /\ Cardinality(schedule_exceptions) = 1

-----------------------------------------------------------------------------
(* The owner saves opening hours of zero length, a client books *)

ZeroLengthTimes == {<<TimeInput(9, 0), TimeInput(9, 0)>>,
                    <<TimeInput(9, 0), TimeInput(17, 0)>>}
ZeroLengthExceptions ==
    {[date |-> d, is_closed |-> FALSE,
      start_time |-> TimeInput(10, 0), end_time |-> TimeInput(10, 0)] :
        d \in BookingDates}

ClientZeroNext(c) ==
    \/ LoadCompanyData(c, TheCompany.id)
    \/ \E service \in page[c].services : OpenModal(c, service)
    \/ \E date \in BookingDates : HandleSubmit(c, date, TimeInput(9, 0))
    \/ BookingInsert(c)
    \/ BookingInsertError(c)
    \/ HandleSubmitDone(c)

OwnerZeroNext(s) ==
    \/ LoadData(s, TheCompany.id)
    \/ \E date \in BookingDates, t \in ZeroLengthTimes :
           HandleScheduleUpdate(s, TheCompany.id, DayOfWeek(date),
                                t[1], t[2], TRUE)
    \/ \E formData \in ZeroLengthExceptions :
           ExceptionFormSubmit(s, TheCompany.id, formData)
    \/ DismissAlert(s)

NextZero ==
    \/ ClientZeroNext("u1")
    \/ OwnerZeroNext("o1a")

SpecZero == Init /\ [][NextZero]_vars

\* the client whose insert a step executes
Inserts(c) == modal[c].pc = "awaiting" /\ modal'[c].pc = "inserted"

\* C16: no booking is created for a date whose open interval, in the store
\* and as the booking client's page shows it, has start_time = end_time
C16_ZeroLengthIntervalIsClosed ==
    [][\A c \in Clients : \A b \in Created :
          Inserts(c) =>
              ~(/\ \E i \in OpenIntervalsFor(b.company_id, b.booking_date) :
                       i[1] = i[2]
                /\ LET shown == OpeningHours(page[c], DayOfWeek(b.booking_date))
                   IN  shown # <<>> /\ shown[1] = shown[2])]_vars

-----------------------------------------------------------------------------
(* What the booking client has retrieved when its booking is stored *)

\* the tables whose rows the page state holds: the three queries of
\* loadCompanyData, once they have all been answered without error
FetchedTables(p) ==
    IF PageShown(p) THEN {"companies", "services", "schedules"} ELSE {}

\* the data the legality of a booking is decided on
NeededToDecide == {"schedules", "schedule_exceptions", "bookings"}

\* C17: a booking is stored only for a client that has retrieved the weekly
\* rules, the exceptions and the existing bookings of the company
C17_NoBookingWithoutRetrievedData ==
    [][\A c \in Clients :
          (Inserts(c) /\ Created # {}) =>
              NeededToDecide \subseteq FetchedTables(page[c])]_vars

-----------------------------------------------------------------------------
(* AppContent, CompanyDashboard and CompanyProfileForm: the owner's company *)

\* the ids gen_random_uuid() hands to new companies, in order
CompanyIds == <<"c1", "c2", "c3">>

NewCompanyId ==
    CompanyIds[CHOOSE i \in 1 .. Len(CompanyIds) :
                   /\ \A r \in companies : r.id # CompanyIds[i]
                   /\ \A j \in 1 .. (i - 1) :
                          \E r \in companies : r.id = CompanyIds[j]]

\* the rows a select on companies returns to the caller
VisibleCompanies(uid) == {r \in companies : CanViewCompany(uid, r)}

\* .from('companies').select(...).eq('owner_id', user.id).maybeSingle():
\* <<"data", <<>>>> for no row, <<"data", <<row>>>> for one row, an error
\* for several rows
OwnerLookup(uid) ==
    LET rows == {r \in VisibleCompanies(uid) : r.owner_id = uid}
    IN  IF Cardinality(rows) > 1 THEN <<"error", <<>>>>
        ELSE <<"data", MaybeSingle(rows)>>

\* AppContent.loadUserCompany answered by the store
LoadUserCompany(s) ==
    /\ app[s].lookups > 0
    /\ LET res == OwnerLookup(AuthUid(s))
       IN  app' = [app EXCEPT ![s] =
               [@ EXCEPT !.loadingCompany = FALSE,
                         !.lookups = @ - 1,
                         !.companyId = IF res[1] = "data" /\ res[2] # <<>>
                                       THEN <<res[2][1].id>>
                                       ELSE app[s].companyId]]
    /\ UNCHANGED <<storeVars, clientVars, ownerVars, now, calcVars, apiResponse, listPage, servMgmt, daySchedule>>

\* AppContent.loadUserCompany when the query fails: companyId is left as
\* it is, finally setLoadingCompany(false)
LoadUserCompanyError(s) ==
    /\ app[s].lookups > 0
    /\ app' = [app EXCEPT ![s] =
                  [@ EXCEPT !.loadingCompany = FALSE, !.lookups = @ - 1]]
    /\ UNCHANGED <<storeVars, clientVars, ownerVars, now, calcVars, apiResponse, listPage, servMgmt, daySchedule>>

\* CompanyDashboard mounted and loadCompanyData answered by the store: an
\* error of maybeSingle skips setCompany, finally setLoading(false)
DashboardLoadCompanyData(s) ==
    /\ ~app[s].loadingCompany
    /\ LET res == OwnerLookup(AuthUid(s))
       IN  app' = [app EXCEPT ![s] =
               [@ EXCEPT !.dashLoading = FALSE,
                         !.dashCompany = IF res[1] = "data" THEN res[2]
                                         ELSE <<>>]]
    /\ UNCHANGED <<storeVars, clientVars, ownerVars, now, calcVars, apiResponse, listPage, servMgmt, daySchedule>>

\* CompanyDashboard mounted and loadCompanyData's query fails
DashboardLoadCompanyDataError(s) ==
    /\ ~app[s].loadingCompany
    /\ app' = [app EXCEPT ![s] =
                  [@ EXCEPT !.dashLoading = FALSE, !.dashCompany = <<>>]]
    /\ UNCHANGED <<storeVars, clientVars, ownerVars, now, calcVars, apiResponse, listPage, servMgmt, daySchedule>>

\* "Company owners can insert their companies": WITH CHECK
CompaniesInsertPolicy(uid, row) == uid = row.owner_id

\* the row an insert of CompanyProfileForm stores
CompanyRow(uid, formData) ==
    [id |-> NewCompanyId, owner_id |-> uid, name |-> formData.name,
     is_active |-> TRUE]

\* CompanyProfileForm.handleSubmit without companyId: insert with
\* owner_id = user.id
CompanyFormInsert(s, formData) ==
    LET row == CompanyRow(AuthUid(s), formData)
    IN  /\ CompaniesInsertPolicy(AuthUid(s), row)
        /\ companies' = companies \cup {row}

\* the row after update(patch); a patch is a record of the columns it sets
PatchCompany(r, patch) ==
    [r EXCEPT !.owner_id = IF "owner_id" \in DOMAIN patch
                           THEN patch.owner_id ELSE @,
              !.name = IF "name" \in DOMAIN patch THEN patch.name ELSE @]

\* companies without the WITH CHECK of its update policy
CompaniesUpdateCheck_Off(uid, row) == TRUE

\* "Company owners can update their companies": USING, on the stored row
CompaniesUpdateUsing(uid, row) == uid = row.owner_id

\* "Company owners can update their companies": WITH CHECK, on the new row
CompaniesUpdateCheck(uid, row) == uid = row.owner_id

\* the rows .update(patch).eq('id', id) on companies acts on for a caller
CompaniesUpdateTargets(uid, id) ==
    {r \in VisibleCompanies(uid) : r.id = id /\ CompaniesUpdateUsing(uid, r)}

\* the update is refused as a whole when a new row fails WITH CHECK
CompaniesUpdateError(uid, id, patch) ==
    \E r \in CompaniesUpdateTargets(uid, id) :
        ~CompaniesUpdateCheck(uid, PatchCompany(r, patch))

CompaniesAfterUpdate(uid, id, patch) ==
    IF CompaniesUpdateError(uid, id, patch) THEN companies
    ELSE {IF r \in CompaniesUpdateTargets(uid, id)
          THEN PatchCompany(r, patch) ELSE r : r \in companies}

\* CompanyDashboard's create form (shown when its lookup found no company):
\* CompanyProfileForm inserts; onSuccess reloads the dashboard and looks the
\* company up for onCompanyCreated
DashboardCreateCompany(s, formData) ==
    /\ ~app[s].loadingCompany
    /\ ~app[s].dashLoading
    /\ app[s].dashCompany = <<>>
    /\ app[s].lookups < MaxLoads
    /\ Cardinality(companies) < MaxCompanies
    /\ CompanyFormInsert(s, formData)
    /\ app' = [app EXCEPT ![s].lookups = @ + 1]
    /\ UNCHANGED <<services, schedules, schedule_exceptions, bookings,
                   clientVars, ownerVars, now, calcVars, apiResponse, listPage, servMgmt, daySchedule>>

\* the Profile view: CompanyProfileForm updates the company AppContent
\* holds the id of, and inserts one when AppContent holds none (onSuccess
\* then calls loadUserCompany)
ProfileFormSubmit(s, formData) ==
    /\ ~app[s].loadingCompany
    /\ IF app[s].companyId # <<>>
       THEN /\ companies' = CompaniesAfterUpdate(AuthUid(s), app[s].companyId[1],
                                                 [name |-> formData.name])
            /\ UNCHANGED app
       ELSE /\ app[s].lookups < MaxLoads
            /\ Cardinality(companies) < MaxCompanies
            /\ CompanyFormInsert(s, formData)
            /\ app' = [app EXCEPT ![s].lookups = @ + 1]
    /\ UNCHANGED <<services, schedules, schedule_exceptions, bookings,
                   clientVars, ownerVars, now, calcVars, apiResponse, listPage, servMgmt, daySchedule>>

\* an update of companies sent to the store by any signed-in caller
CompaniesUpdateCall(uid, id, patch) ==
    /\ companies' = CompaniesAfterUpdate(uid, id, patch)
    /\ apiResponse' =
           <<[table |-> "companies", caller |-> uid, bookingId |-> 0, companyId |-> id,
              error |-> CompaniesUpdateError(uid, id, patch),
              count |-> IF CompaniesUpdateError(uid, id, patch) THEN 0
                        ELSE Cardinality(CompaniesUpdateTargets(uid, id))]>>
    /\ UNCHANGED <<services, schedules, schedule_exceptions, bookings,
                   clientVars, ownerVars, now, calcVars, app, listPage, servMgmt, daySchedule>>

-----------------------------------------------------------------------------
(* The business owner's app: company lookup, dashboard, Profile view *)

CompanyNames == {"n1", "n2"}

\* a store in which no company exists yet, or the one of owner o1
InitCompany ==
    /\ companies \in {{}, {TheCompany}}
    /\ services = (IF companies = {} THEN {} ELSE {TheService})
    /\ schedules = {}
    /\ schedule_exceptions = {}
    /\ bookings = {}
    /\ InitSessions /\ InitCalcIdle /\ InitApp /\ InitList /\ InitOwnerRows

AppNext(s) ==
    \/ LoadUserCompany(s)
    \/ LoadUserCompanyError(s)
    \/ DashboardLoadCompanyData(s)
    \/ DashboardLoadCompanyDataError(s)
    \/ \E name \in CompanyNames : DashboardCreateCompany(s, [name |-> name])
    \/ \E name \in CompanyNames : ProfileFormSubmit(s, [name |-> name])

\* the two browser sessions of owner o1
NextCompany == \E s \in OwnerSessions : AppNext(s)

SpecCompany == InitCompany /\ [][NextCompany]_vars

\* C20: whatever the owners do in the app (Profile view, CompanyProfileForm,
\* the dashboard's create form), also after a failed or unanswered lookup
\* and with two sessions of one owner, the store holds at most one company
\* per owner_id
C20_OneCompanyPerOwner ==
    \A a \in companies : \A b \in companies :
        a.owner_id = b.owner_id => a.id = b.id

-----------------------------------------------------------------------------
(* Updates sent to the store under any caller identity *)

\* an update of bookings sent to the store by any signed-in caller
BookingsUpdateCall(uid, id, patch) ==
    /\ bookings' = BookingsAfterUpdate(uid, id, patch)
    /\ apiResponse' =
           <<[table |-> "bookings", caller |-> uid, bookingId |-> id, companyId |-> "",
              error |-> BookingsUpdateError(uid, id, patch),
              count |-> IF BookingsUpdateError(uid, id, patch) THEN 0
                        ELSE Cardinality(BookingsUpdateTargets(uid, id))]>>
    /\ UNCHANGED <<companies, services, schedules, schedule_exceptions,
                   clientVars, ownerVars, now, calcVars, app, listPage, servMgmt, daySchedule>>

Callers == {"o1", "o2", "u1"}

BookingPatches ==
    {[status |-> st] : st \in {"confirmed", "cancelled"}}
        \cup {[company_id |-> id] : id \in {"c1", "c2"}}

\* handing a company to a user
CompanyPatches == {[owner_id |-> u] : u \in {"o1", "o2"}}


\* the client books once at company c1
PolicyClientNext(c) ==
    \/ LoadCompanyData(c, TheCompany.id)
    \/ \E service \in page[c].services : OpenModal(c, service)
    \/ HandleSubmit(c, 1, TimeInput(9, 0))
    \/ BookingInsert(c)

\* owner o2 signs in and creates its company c2 on the dashboard
SecondOwnerNext ==
    \/ LoadUserCompany("o2")
    \/ DashboardLoadCompanyData("o2")
    \/ DashboardCreateCompany("o2", [name |-> "n2"])

\* the client books at c1, owner o1 works on its bookings list, owner o2
\* creates its company, and any caller sends updates of bookings
NextPolicy ==
    \/ PolicyClientNext("u1")
    \/ LoadBookings("o1a", TheCompany.id)
    \/ \E id \in 1 .. MaxBookings, status \in BookingStatus :
           UpdateBookingStatus("o1a", id, status)
    \/ SecondOwnerNext
    \/ \E uid \in Callers, id \in 1 .. MaxBookings, patch \in BookingPatches :
           BookingsUpdateCall(uid, id, patch)

SpecPolicy == Init /\ [][NextPolicy]_vars

\* both owners in their apps (lookup, dashboard, Profile view), and any
\* caller sends updates of companies
NextTransfer ==
    \/ \E s \in {"o1a", "o2"} : AppNext(s)
    \/ \E uid \in Callers, id \in {"c1", "c2"}, patch \in CompanyPatches :
           CompaniesUpdateCall(uid, id, patch)

SpecTransfer == Init /\ [][NextTransfer]_vars

\* the step is an update of booking b sent under an identity that owns the
\* company of b and the company of the row the update stores
UpdatedByOwner(b) ==
    \/ \E uid \in Callers, patch \in BookingPatches :
           /\ BookingsUpdateCall(uid, b.id, patch)
           /\ OwnsCompany(uid, b.company_id)
           /\ OwnsCompany(uid, PatchBooking(b, patch).company_id)
    \/ \E s \in OwnerSessions, status \in BookingStatus :
           /\ UpdateBookingStatus(s, b.id, status)
           /\ OwnsCompany(AuthUid(s), b.company_id)

\* C18: a step that changes or removes a stored booking is an update sent
\* by the owner of the booking's company, and the row it stores belongs to a
\* company that caller owns; an update sent under any other identity
\* changes no row
C18_BookingMutatedOnlyByOwner ==
    [][/\ \A b \in bookings : b \notin bookings' => UpdatedByOwner(b)
       /\ \A uid \in Callers, patch \in BookingPatches :
              \A b \in bookings :
                  /\ BookingsUpdateCall(uid, b.id, patch)
                  /\ ~OwnsCompany(uid, b.company_id)
                  => bookings' = bookings]_vars

\* C18 witness: the client's update of its own booking has been answered
\* with no row changed, the booking still as it was created
C18_Witness_NonOwnerChangesNothing ==
    /\ apiResponse # <<>>
    /\ apiResponse[1].table = "bookings"
    /\ apiResponse[1].caller = "u1"
    /\ apiResponse[1].count = 0
    /\ \E b \in bookings :
           /\ b.id = apiResponse[1].bookingId
           /\ b.client_user_id = "u1"
           /\ b.status = "pending"

\* C19: no step changes the owner_id of a stored company
C19_OwnerIdNeverChanges ==
    [][\A c \in companies : \A d \in companies' :
           c.id = d.id => d.owner_id = c.owner_id]_vars

\* C19 witness: the owner's update that hands its company to another user
\* has been refused, and an update through CompanyProfileForm has renamed
\* the company, which still has its owner
C19_Witness_TransferRefused ==
    /\ apiResponse # <<>>
    /\ apiResponse[1].table = "companies"
    /\ apiResponse[1].caller = "o1"
    /\ apiResponse[1].companyId = "c1"
    /\ apiResponse[1].error
    /\ \E c \in companies :
           c.id = "c1" /\ c.owner_id = "o1" /\ c.name = "n2"

-----------------------------------------------------------------------------
(* Claims about the buttons of BookingCard, checked under SpecOwner *)

\* the status updates the state machine allows from a displayed status
AllowedUpdates(status, past) ==
    IF status = "pending" THEN {"confirmed", "cancelled"}
    ELSE IF status = "confirmed"
         THEN (IF past THEN {"cancelled", "completed"} ELSE {"cancelled"})
         ELSE {}

\* C21: the status updates a displayed card can issue are exactly confirmed
\* and cancelled for pending, cancelled (and completed when the booking's
\* date is before today) for confirmed, none for cancelled and completed
C21_CardOffersExactlyTheAllowedUpdates ==
    \A s \in OwnerSessions : \A b \in DisplayedBookings(s) :
        OfferedStatuses(b, now) = AllowedUpdates(b.status, b.booking_date < now.date)

-----------------------------------------------------------------------------
(* Adjacent bookings and bookings over cancelled ones: a client books twice *)
(* while the owner changes the status of what is booked                    *)

OverlapTimes == {TimeInput(9, 0), TimeInput(9, 30), TimeInput(10, 0)}

ClientOverlapNext(c) ==
    \/ LoadCompanyData(c, TheCompany.id)
    \/ \E service \in page[c].services : OpenModal(c, service)
    \/ \E time \in OverlapTimes : HandleSubmit(c, 1, time)
    \/ BookingInsert(c)
    \/ BookingInsertError(c)
    \/ HandleSubmitDone(c)

NextOverlap ==
    \/ ClientOverlapNext("u1")
    \/ LoadBookings("o1a", TheCompany.id)
    \/ \E id \in 1 .. MaxBookings, status \in BookingStatus :
           UpdateBookingStatus("o1a", id, status)

SpecOverlap == Init /\ [][NextOverlap]_vars

\* the stored pending or confirmed bookings of the same company and date
\* whose half-open interval intersects the one of row
Blocking(row) ==
    {b \in bookings : /\ b.company_id = row.company_id
                      /\ b.booking_date = row.booking_date
                      /\ b.status \in ActiveStatus
                      /\ Intersects(row, b)}

\* C22: a request that intersects no pending or confirmed booking of its
\* company and date (it is adjacent to them, or intersects only cancelled
\* and completed ones) is not refused by the store the insert is sent to
C22_NotRejectedWithoutOverlap ==
    \A c \in Clients :
        (modal[c].pc = "awaiting" /\ Blocking(Requested(c)) = {})
            => BookingAccepted(Requested(c))

\* C22 witness: a booking is stored that starts exactly at the end of
\* another pending or confirmed booking of the same company and date
C22_Witness_AdjacentStored ==
    \E a \in bookings : \E b \in bookings :
        /\ a.company_id = b.company_id
        /\ a.booking_date = b.booking_date
        /\ a.status \in ActiveStatus
        /\ b.start_time = a.end_time
        /\ a.id < b.id

-----------------------------------------------------------------------------
(* ExceptionForm on its own: closed and open exceptions, with the time      *)
(* inputs filled in or cleared                                              *)

ExceptionDates == {1, 2, 3}

\* what the form can hold when it is submitted: the date (required), the
\* checkbox, and each time input with a value or cleared
ExceptionDrafts ==
    {[date |-> d, is_closed |-> closed, start_time |-> st, end_time |-> en] :
        d \in ExceptionDates, closed \in BOOLEAN,
        st \in {TimeInput(9, 0), <<>>}, en \in {TimeInput(17, 0), <<>>}}

NextException ==
    \/ LoadData("o1a", TheCompany.id)
    \/ \E formData \in ExceptionDrafts :
           ExceptionFormSubmit("o1a", TheCompany.id, formData)
    \/ DismissAlert("o1a")

SpecException == Init /\ [][NextException]_vars

\* C23: every stored exception is closed with both times null, or open with
\* both times set
C23_ExceptionShape ==
    \A e \in schedule_exceptions :
        \/ e.is_closed /\ e.start_time = NULL /\ e.end_time = NULL
        \/ ~e.is_closed /\ e.start_time # NULL /\ e.end_time # NULL

\* C23 witness: a closed and an open exception are stored, and a submit of
\* the form with a cleared time input has been answered with an error
C23_Witness_BothShapesAndRefusal ==
    /\ \E e \in schedule_exceptions : e.is_closed
    /\ \E e \in schedule_exceptions : ~e.is_closed
    /\ schedMgmt["o1a"].alert = <<InvalidTimeMessage>>

-----------------------------------------------------------------------------
(* Company search: CompanyListPage and the function search_companies *)

\* String.prototype.toLowerCase / the case folding of ILIKE, on the letters
\* the model's texts are written with
LowerChar(c) == IF c = "A" THEN "a" ELSE IF c = "K" THEN "k" ELSE c

toLowerCase(s) == [i \in 1 .. Len(s) |-> LowerChar(s[i])]

\* String.prototype.includes
includes(s, searchString) ==
    \E i \in 0 .. (Len(s) - Len(searchString)) :
        SubSeq(s, i + 1, i + Len(searchString)) = searchString

\* text ILIKE '%' || pattern || '%' for a pattern without wildcards
ILike(text, pattern) == includes(toLowerCase(text), toLowerCase(pattern))

Tags == {<<"t">>, <<"u">>}

\* the companies of the directory: their tags and whether c2 is active vary
SearchCompany(id, owner, name, city, tags, active) ==
    [id |-> id, owner_id |-> owner, name |-> name, is_active |-> active,
     description |-> <<"a">>, category |-> <<"b">>, city |-> city,
     tags |-> tags]

\* loadCompanies answered: the active companies, with the selected columns
LoadCompanies ==
    /\ listPage.loading
    /\ listPage' = [listPage EXCEPT
           !.loading = FALSE,
           !.companies =
               {[id |-> c.id, name |-> c.name, description |-> c.description,
                 category |-> c.category, city |-> c.city, tags |-> c.tags] :
                    c \in {r \in companies : r.is_active}}]
    /\ UNCHANGED <<storeVars, clientVars, ownerVars, now, calcVars, appVars, servMgmt, daySchedule>>

\* loadCompanies when the query fails: the list stays empty
LoadCompaniesError ==
    /\ listPage.loading
    /\ listPage' = [listPage EXCEPT !.loading = FALSE]
    /\ UNCHANGED <<storeVars, clientVars, ownerVars, now, calcVars, appVars, servMgmt, daySchedule>>

\* the tags and cities the page offers as filter buttons
allTags == UNION {c.tags : c \in listPage.companies}
cities == {c.city : c \in listPage.companies} \ {<<>>}

SetSearchTerm(value) ==
    /\ ~listPage.loading
    /\ listPage' = [listPage EXCEPT !.searchTerm = value]
    /\ UNCHANGED <<storeVars, clientVars, ownerVars, now, calcVars, appVars, servMgmt, daySchedule>>

SetCityFilter(city) ==
    /\ ~listPage.loading
    /\ listPage' = [listPage EXCEPT !.cityFilter = city]
    /\ UNCHANGED <<storeVars, clientVars, ownerVars, now, calcVars, appVars, servMgmt, daySchedule>>

toggleTag(tag) ==
    /\ ~listPage.loading
    /\ listPage' = [listPage EXCEPT
           !.selectedTags = IF tag \in @ THEN @ \ {tag} ELSE @ \cup {tag}]
    /\ UNCHANGED <<storeVars, clientVars, ownerVars, now, calcVars, appVars, servMgmt, daySchedule>>

matchesSearch(company, searchTerm) ==
    LET searchLower == toLowerCase(searchTerm)
    IN  \/ searchTerm = <<>>
        \/ includes(toLowerCase(company.name), searchLower)
        \/ includes(toLowerCase(company.category), searchLower)
        \/ includes(toLowerCase(company.description), searchLower)
        \/ includes(toLowerCase(company.city), searchLower)
        \/ \E tag \in company.tags : includes(toLowerCase(tag), searchLower)

matchesCity(company, cityFilter) ==
    cityFilter = <<>> \/ company.city = cityFilter

matchesTags(company, selectedTags) ==
    \/ selectedTags = {}
    \/ \A tag \in selectedTags : tag \in company.tags

\* the cards CompanyListPage renders
filteredCompanies(lp) ==
    {company \in lp.companies :
        /\ matchesSearch(company, lp.searchTerm)
        /\ matchesCity(company, lp.cityFilter)
        /\ matchesTags(company, lp.selectedTags)}

\* the rows search_companies(search_query, filter_tags, filter_city) returns
search_companies(search_query, filter_tags, filter_city) ==
    {c \in companies :
        /\ c.is_active
        /\ \/ search_query = <<>>
           \/ ILike(c.name, search_query)
           \/ ILike(c.description, search_query)
           \/ ILike(c.category, search_query)
           \/ \E tag \in c.tags : ILike(tag, search_query)
        /\ \/ Cardinality(filter_tags) = 0
           \/ c.tags \cap filter_tags # {}
        /\ \/ filter_city = <<>>
           \/ ILike(c.city, filter_city)}

\* a call of the function through the API; the answer is kept
SearchCompaniesRpc(search_query, filter_tags, filter_city) ==
    /\ apiResponse' =
           <<[fn |-> "search_companies", search_query |-> search_query,
              filter_tags |-> filter_tags, filter_city |-> filter_city,
              rows |-> search_companies(search_query, filter_tags, filter_city)]>>
    /\ UNCHANGED <<storeVars, clientVars, ownerVars, now, calcVars, app, listPage, servMgmt, daySchedule>>

SearchTerms == {<<>>, <<"a">>}
SearchCities == {<<>>, <<"K">>, <<"k">>}

InitSearch ==
    /\ \E t1 \in SUBSET Tags, t2 \in SUBSET Tags, active \in BOOLEAN :
           companies = {SearchCompany("c1", "o1", <<"A", "b">>, <<"K">>, t1, TRUE),
                        SearchCompany("c2", "o2", <<"b">>, <<"L">>, t2, active)}
    /\ services = {TheService}
    /\ schedules = {}
    /\ schedule_exceptions = {}
    /\ bookings = {}
    /\ InitSessions /\ InitCalcIdle /\ InitApp /\ InitList /\ InitOwnerRows

NextSearch ==
    \/ LoadCompanies
    \/ LoadCompaniesError
    \/ \E value \in SearchTerms : SetSearchTerm(value)
    \/ \E city \in cities \cup {<<>>} : SetCityFilter(city)
    \/ \E tag \in allTags : toggleTag(tag)
    \/ \E q \in SearchTerms, tags \in SUBSET Tags, city \in SearchCities :
           SearchCompaniesRpc(q, tags, city)

SpecSearch == InitSearch /\ [][NextSearch]_vars

\* C24: under a non-empty tag filter a company that passes the other
\* filters is kept exactly when it carries at least one selected tag, and
\* under an empty tag filter every such company is kept; in the cards of
\* CompanyListPage and in the rows of search_companies
C24_TagFilterIsIntersection ==
    /\ \A c \in listPage.companies :
           (matchesSearch(c, listPage.searchTerm)
                /\ matchesCity(c, listPage.cityFilter))
           => (c \in filteredCompanies(listPage)
                  <=> (listPage.selectedTags = {}
                          \/ c.tags \cap listPage.selectedTags # {}))
    /\ apiResponse # <<>> =>
           \A c \in search_companies(apiResponse[1].search_query, {},
                                     apiResponse[1].filter_city) :
               c \in apiResponse[1].rows
                   <=> (apiResponse[1].filter_tags = {}
                           \/ c.tags \cap apiResponse[1].filter_tags # {})

-----------------------------------------------------------------------------
(* ServicesManagement: the owner deletes a service *)

OtherService == [id |-> "s2", company_id |-> "c1", duration_minutes |-> 30,
                 is_active |-> TRUE]

\* loadServices answered: the list becomes the company's services
LoadServices(s, companyId) ==
    /\ servMgmt[s].loads > 0
    /\ servMgmt' = [servMgmt EXCEPT ![s] =
           [loading |-> FALSE,
            services |-> {r \in services :
                             /\ CanViewService(AuthUid(s), r)
                             /\ r.company_id = companyId},
            loads |-> @.loads - 1]]
    /\ UNCHANGED <<storeVars, clientVars, ownerVars, now, calcVars, appVars,
                   listPage, daySchedule>>

\* "Company owners can delete their services": USING
ServicesDeleteUsing(uid, row) == OwnsCompany(uid, row.company_id)

\* bookings.service_id without ON DELETE CASCADE: the bookings stay
BookingsAfterServiceDelete_NoCascade(deleted) == bookings

\* bookings.service_id REFERENCES services ON DELETE CASCADE
BookingsAfterServiceDelete(deleted) ==
    {b \in bookings : \A r \in deleted : b.service_id # r.id}

\* handleDelete(id) from the card of a displayed service, confirmed in the
\* dialog: delete().eq('id', id), then loadServices()
HandleDelete(s, id) ==
    /\ ~servMgmt[s].loading
    /\ servMgmt[s].loads < MaxLoads
    /\ \E shown \in servMgmt[s].services : shown.id = id
    /\ LET deleted == {r \in services :
                          r.id = id /\ ServicesDeleteUsing(AuthUid(s), r)}
       IN  /\ services' = services \ deleted
           /\ bookings' = BookingsAfterServiceDelete(deleted)
    /\ servMgmt' = [servMgmt EXCEPT ![s].loads = @ + 1]
    /\ UNCHANGED <<companies, schedules, schedule_exceptions, clientVars,
                   ownerVars, now, calcVars, appVars, listPage, daySchedule>>

\* a company with two services
InitDelete ==
    /\ companies = {TheCompany}
    /\ services = {TheService, OtherService}
    /\ schedules = {}
    /\ schedule_exceptions = {}
    /\ bookings = {}
    /\ InitSessions /\ InitCalcIdle /\ InitApp /\ InitList /\ InitOwnerRows

ClientDeleteNext(c) ==
    \/ LoadCompanyData(c, TheCompany.id)
    \/ \E service \in page[c].services : OpenModal(c, service)
    \/ HandleSubmit(c, 1, TimeInput(9, 0))
    \/ BookingInsert(c)
    \/ HandleSubmitDone(c)

\* the client books the services, the owner changes the status of the
\* bookings and deletes services
NextDelete ==
    \/ ClientDeleteNext("u1")
    \/ LoadBookings("o1a", TheCompany.id)
    \/ \E id \in 1 .. MaxBookings, status \in BookingStatus :
           UpdateBookingStatus("o1a", id, status)
    \/ LoadServices("o1a", TheCompany.id)
    \/ \E id \in {TheService.id, OtherService.id} : HandleDelete("o1a", id)

SpecDelete == InitDelete /\ [][NextDelete]_vars

\* C25: every stored booking references a stored service and a stored
\* company; a step that deletes a service removes exactly the bookings that
\* reference it, whatever their status
C25_ReferencesExistAndDeleteCascades ==
    /\ [](\A b \in bookings :
              /\ \E r \in services : r.id = b.service_id
              /\ \E c \in companies : c.id = b.company_id)
    /\ [][\A r \in services : r \notin services' =>
              bookings' = {b \in bookings : b.service_id # r.id}]_vars

\* C25 witness: service s1 has been deleted, the owner's bookings list
\* still shows a confirmed booking of s1 that is no longer stored, and a
\* booking of the other service is stored
C25_Witness_CascadeOnConfirmed ==
    /\ \A r \in services : r.id # TheService.id
    /\ \E shown \in bookMgmt["o1a"].bookings :
           /\ shown.service_id = TheService.id
           /\ shown.status = "confirmed"
    /\ \E b \in bookings : b.service_id = OtherService.id

-----------------------------------------------------------------------------
(* Frame of updateBookingStatus, checked under SpecOverlap *)

\* a and b agree on every column but status
SameButStatus(a, b) == [a EXCEPT !.status = b.status] = b

\* C26: a call updateBookingStatus(id, status) leaves every column but the
\* status of the booking with that id as it was, and every other booking
\* unchanged; no booking appears or disappears
C26_UpdateChangesOnlyStatus ==
    [][\A s \in OwnerSessions, id \in 1 .. MaxBookings, status \in BookingStatus :
           UpdateBookingStatus(s, id, status) =>
               /\ \A b \in bookings :
                      \E c \in bookings' :
                          /\ c.id = b.id
                          /\ SameButStatus(b, c)
                          /\ (b.id # id => c = b)
               /\ Cardinality(bookings') = Cardinality(bookings)]_vars

\* C26 witness: of two stored bookings the owner has cancelled the second,
\* the first is still pending, and both still have what they were created
\* with
C26_Witness_OneOfTwoUpdated ==
    \E a \in bookings : \E b \in bookings :
        /\ a.id = 1 /\ b.id = 2
        /\ a.status = "pending" /\ b.status = "cancelled"
        /\ a.start_time = PgTime(TimeInput(9, 0))
        /\ b.start_time = PgTime(TimeInput(10, 0))
        /\ b.end_time = PgTime(TimeInput(11, 0))
        /\ b.client_user_id = "u1"
        /\ b.service_id = TheService.id

-----------------------------------------------------------------------------
(* Frame of handleScheduleUpdate: two weekdays, two owner sessions, and a   *)
(* second company with a rule of its own                                    *)

OtherCompany == [id |-> "c2", owner_id |-> "o2", name |-> "n2",
                 is_active |-> TRUE]

FrameDays == {1, 2}
FrameTimes == {<<TimeInput(9, 0), TimeInput(17, 0)>>}

InitFrame ==
    /\ companies = {TheCompany, OtherCompany}
    /\ services = {TheService}
    /\ schedules = {ScheduleRow(OtherCompany.id, 1, TimeInput(8, 0),
                                TimeInput(12, 0), TRUE)}
    /\ schedule_exceptions = {}
    /\ bookings = {}
    /\ InitSessions /\ InitCalcIdle /\ InitApp /\ InitList /\ InitOwnerRows

OwnerFrameNext(s) ==
    \/ LoadData(s, TheCompany.id)
    \/ \E day \in FrameDays, t \in FrameTimes, isActive \in BOOLEAN :
           HandleScheduleUpdate(s, TheCompany.id, day, t[1], t[2], isActive)
    \/ DismissAlert(s)

NextFrame == \E s \in OwnerSessions : OwnerFrameNext(s)

SpecFrame == InitFrame /\ [][NextFrame]_vars

\* the stored rules other than the rule of the company for the day
OtherRules(rules, companyId, dayOfWeek) ==
    {r \in rules : ~(r.company_id = companyId /\ r.day_of_week = dayOfWeek)}

\* C27: a call of handleScheduleUpdate for a day leaves the rules of the
\* other days and of other companies as they were; when the local list
\* holds a rule for the day no rule is inserted and the stored rule with
\* that id gets the values of the call, and when it holds none no stored
\* rule is changed and at most one rule, for that day, is added
C27_UpdateInPlaceOrInsert ==
    [][\A s \in OwnerSessions, day \in FrameDays, t \in FrameTimes,
          isActive \in BOOLEAN :
           HandleScheduleUpdate(s, TheCompany.id, day, t[1], t[2], isActive) =>
               /\ OtherRules(schedules', TheCompany.id, day)
                      = OtherRules(schedules, TheCompany.id, day)
               /\ IF \E r \in schedMgmt[s].schedules : r.day_of_week = day
                  THEN /\ {r.id : r \in schedules'} = {r.id : r \in schedules}
                       /\ \A r \in schedules' :
                              (r.company_id = TheCompany.id /\ r.day_of_week = day)
                                  => /\ r.start_time = PgTime(t[1])
                                     /\ r.end_time = PgTime(t[2])
                                     /\ r.is_active = isActive
                  ELSE /\ schedules \subseteq schedules'
                       /\ Cardinality(schedules' \ schedules) <= 1]_vars

\* C27 witness: the owner has a rule for each of the two days, the rule of
\* day 1 has been updated in place to closed, and the rule of the other
\* company is stored as it was
C27_Witness_UpdatedInPlace ==
    /\ \E r \in schedules :
           r.company_id = TheCompany.id /\ r.day_of_week = 1 /\ ~r.is_active
    /\ \E r \in schedules :
           r.company_id = TheCompany.id /\ r.day_of_week = 2 /\ r.is_active
    /\ ScheduleRow(OtherCompany.id, 1, TimeInput(8, 0), TimeInput(12, 0), TRUE)
           \in schedules
    /\ \E s \in OwnerSessions : schedMgmt[s].alert # <<>>

-----------------------------------------------------------------------------
(* Error handling of BookingModal.handleSubmit, checked under SpecOverlap *)

\* C28: the step in which the insert fails adds no booking; when
\* handleSubmit then runs to its end no booking is added, the success
\* message is not shown, the modal is still open with the service and the
\* form data that were entered, and loading is false; loading is false
\* after a successful insert as well
C28_FailedInsertKeepsForm ==
    [][\A c \in Clients :
           /\ (modal[c].pc = "awaiting" /\ modal'[c].pc = "failed")
                  => bookings' = bookings
           /\ (modal[c].pc = "failed" /\ modal'[c] # modal[c])
                  => /\ bookings' = bookings
                     /\ modal'[c].alert # <<SuccessMessage>>
                     /\ modal'[c].open
                     /\ modal'[c].service = modal[c].service
                     /\ modal'[c].formData = modal[c].formData
                     /\ modal[c].loading /\ ~modal'[c].loading
           /\ (modal[c].pc = "inserted" /\ modal'[c] # modal[c])
                  => modal[c].loading /\ ~modal'[c].loading]_vars

\* C28 witness: the client's second request has failed after the first
\* was stored; the modal is open with the time that was entered, shows the
\* error, is not loading, and only the first booking is stored
C28_Witness_FailedAfterSuccess ==
    /\ modal["u1"].open
    /\ ~modal["u1"].loading
    /\ modal["u1"].alert = <<StoreErrorMessage>>
    /\ modal["u1"].formData = <<[date |-> 1, time |-> TimeInput(10, 0)]>>
    /\ Cardinality(bookings) = 1
    /\ \A b \in bookings : b.start_time = PgTime(TimeInput(9, 0))

-----------------------------------------------------------------------------
(* DaySchedule: the row of one weekday in ScheduleManagement *)

\* the weekday of the row
RowDay == 1

\* a value of the SQL type time as the API returns it: 'HH:MM:SS'
PgTimeText(minutes) ==
    TimeInput(minutes \div 60, minutes % 60) \o <<":", "0", "0">>

\* the prop schedule={schedules.find(s => s.day_of_week === index)}, as
\* the JavaScript object the row reads: <<>> for undefined
ScheduleProp(localSchedules, dayOfWeek) ==
    LET found == ScheduleFind(localSchedules, dayOfWeek)
    IN  IF found = {} THEN <<>>
        ELSE LET r == CHOOSE x \in found : TRUE
             IN  <<[is_active |-> r.is_active,
                    start_time |-> PgTimeText(r.start_time),
                    end_time |-> PgTimeText(r.end_time)]>>

\* the useState initial values of a row
DayScheduleMounted(schedule) ==
    [mounted |-> TRUE,
     isActive |-> IF schedule = <<>> THEN FALSE ELSE schedule[1].is_active,
     startTime |-> IF schedule = <<>> THEN TimeInput(9, 0)
                   ELSE schedule[1].start_time,
     endTime |-> IF schedule = <<>> THEN TimeInput(17, 0)
                 ELSE schedule[1].end_time,
     hasChanges |-> FALSE, saving |-> FALSE]

\* the value the effect hands to setHasChanges
Changed(d, schedule) ==
    LET propActive == IF schedule = <<>> THEN FALSE ELSE schedule[1].is_active
        propStart == IF schedule = <<>> THEN TimeInput(9, 0)
                     ELSE schedule[1].start_time
        propEnd == IF schedule = <<>> THEN TimeInput(17, 0)
                   ELSE schedule[1].end_time
    IN  \/ d.isActive # propActive
        \/ d.isActive /\ (d.startTime # propStart \/ d.endTime # propEnd)

\* the row after a render with the prop: mounted when it was not, and the
\* effect run
Rendered(d, schedule) ==
    LET row == IF d.mounted THEN d ELSE DayScheduleMounted(schedule)
    IN  [row EXCEPT !.hasChanges = Changed(row, schedule)]

\* loadData answered: ScheduleManagement renders, the row gets the new prop
DayLoadData(s) ==
    /\ LoadDataCall(s, TheCompany.id)
    /\ daySchedule' = [daySchedule EXCEPT ![s] =
           Rendered(@, ScheduleProp(schedMgmt'[s].schedules, RowDay))]

\* the owner changes the checkbox or a time input of the row
DayEdit(s, field, value) ==
    /\ daySchedule[s].mounted
    /\ ~daySchedule[s].saving
    /\ schedMgmt[s].alert = <<>>
    /\ field \in {"startTime", "endTime"} => daySchedule[s].isActive
    /\ daySchedule' = [daySchedule EXCEPT ![s] =
           Rendered([@ EXCEPT ![field] = value],
                    ScheduleProp(schedMgmt[s].schedules, RowDay))]
    /\ UNCHANGED <<storeVars, clientVars, ownerVars, now, calcVars, appVars,
                   listPage, servMgmt>>

\* handleSave: setSaving(true), await onUpdate(...); when onUpdate shows an
\* alert the handler waits for the owner to close it; otherwise
\* setSaving(false), setHasChanges(false)
HandleSave(s) ==
    /\ daySchedule[s].mounted
    /\ daySchedule[s].hasChanges
    /\ ~daySchedule[s].saving
    /\ ScheduleUpdateCall(s, TheCompany.id, RowDay, daySchedule[s].startTime,
                          daySchedule[s].endTime, daySchedule[s].isActive)
    /\ daySchedule' = [daySchedule EXCEPT ![s] =
           IF schedMgmt'[s].alert # <<>>
           THEN [@ EXCEPT !.saving = TRUE]
           ELSE [@ EXCEPT !.saving = FALSE, !.hasChanges = FALSE]]

\* the owner closes the alert of a failed save: onUpdate returns,
\* setSaving(false), setHasChanges(false)
DayDismissAlert(s) ==
    /\ DismissAlertCall(s)
    /\ daySchedule' = [daySchedule EXCEPT ![s] =
           [@ EXCEPT !.saving = FALSE, !.hasChanges = FALSE]]

DayStartTimes == {TimeInput(10, 0), <<>>}
DayEndTimes == {TimeInput(18, 0)}

NextDay ==
    \/ DayLoadData("o1a")
    \/ \E b \in BOOLEAN : DayEdit("o1a", "isActive", b)
    \/ \E t \in DayStartTimes : DayEdit("o1a", "startTime", t)
    \/ \E t \in DayEndTimes : DayEdit("o1a", "endTime", t)
    \/ HandleSave("o1a")
    \/ DayDismissAlert("o1a")

SpecDay == Init /\ [][NextDay]_vars

\* the row's open flag, or while it is open one of its times, is not what
\* the rule it was handed holds
LocalDiffers(d, localSchedules) ==
    LET found == ScheduleFind(localSchedules, RowDay)
    IN  IF found = {} THEN d.isActive
        ELSE LET r == CHOOSE x \in found : TRUE
             IN  \/ d.isActive # r.is_active
                 \/ /\ d.isActive
                    /\ \/ ~PgTimeValid(d.startTime)
                       \/ ~PgTimeValid(d.endTime)
                       \/ PgTime(d.startTime) # r.start_time
                       \/ PgTime(d.endTime) # r.end_time

\* C29: while no save is in flight (and every reload has answered),
\* hasChanges is true exactly when the row's local state differs from the
\* persisted rule it was handed; so the Save button is still offered after
\* a save the store refused
C29_HasChangesIffDiffers ==
    \A s \in OwnerSessions :
        (/\ daySchedule[s].mounted
         /\ ~daySchedule[s].saving
         /\ schedMgmt[s].loads = 0
         /\ schedMgmt[s].alert = <<>>)
            => (daySchedule[s].hasChanges
                   <=> LocalDiffers(daySchedule[s], schedMgmt[s].schedules))

-----------------------------------------------------------------------------
(* BookingsManagement while loads overlap: a client books, the owner       *)
(* switches the filter and changes statuses before the lists have arrived  *)

LoadTimes == {TimeInput(9, 0), TimeInput(10, 0)}
LoadFilters == {"all", "pending", "confirmed"}

ClientLoadsNext(c) ==
    \/ LoadCompanyData(c, TheCompany.id)
    \/ \E service \in page[c].services : OpenModal(c, service)
    \/ \E time \in LoadTimes : HandleSubmit(c, 1, time)
    \/ BookingInsert(c)
    \/ HandleSubmitDone(c)

NextLoads ==
    \/ ClientLoadsNext("u1")
    \/ LoadBookings("o1a", TheCompany.id)
    \/ \E id \in 1 .. MaxBookings, status \in BookingStatus :
           UpdateBookingStatus("o1a", id, status)
    \/ \E f \in LoadFilters : SetFilter("o1a", f)

SpecLoads == Init /\ [][NextLoads]_vars

\* C30: once every loadBookings call in flight has answered, the list on
\* display is what the query for the selected filter and the company
\* returns, in whatever order the answers arrived: every booking on display
\* is a row of that query
C30_SettledListMatchesFilter ==
    \A s \in OwnerSessions :
        (~bookMgmt[s].loading /\ bookMgmt[s].loads = 0)
            => bookMgmt[s].bookings
                   \subseteq BookingsQuery(AuthUid(s), TheCompany.id,
                                           bookMgmt[s].filter)

=============================================================================
